---- MODULE Spec2Model ----
(***************************************************************************)
(* The TKO tracker of mcrouter (mcrouter/TkoTracker.cpp).                  *)
(*                                                                         *)
(* Every destination is a thread that issues its tracker calls one at a    *)
(* time.  A call is cut into steps holding at most one access to shared    *)
(* memory (sumFailures_, consecutiveFailureCount_, softTkos, hardTkos), so *)
(* that every interleaving of the atomic accesses is explored.             *)
(*                                                                         *)
(* Spec, SpecZero and SpecFair are about the calls on the trackers;        *)
(* SpecRegistry and SpecLocks are about TkoTrackerMap: the table           *)
(* trackers_, its mutex mx_, and the shared and weak pointers to the       *)
(* tracker objects.                                                        *)
(***************************************************************************)
EXTENDS Integers, Naturals, FiniteSets, Sequences, TLC

\* ------------------------------------------------------------------ bounds
MaxThreshold == 3
MaxConsec == 4
MaxCalls == 1
MaxObjs == 3
MaxOps == 3
WordBits == 6

Mod == 2 ^ WordBits

\* The destinations (ProxyDestination objects) and the trackers of the map.
Dests == {1, 2}
Trackers == {1, 2}

\* The host keys of the access points, the TkoTracker objects the registry
\* can allocate, and the threads: one per destination and one that asks for
\* the suspect servers.
Keys == {1, 2}
Objs == 1..MaxObjs
Observer == Cardinality(Dests) + 1
Threads == Dests \cup {Observer}

\* reinterpret_cast<uintptr_t>(pdstn): distinct, even, above every threshold.
TokenBase == 2 * ((MaxThreshold \div 2) + 1)
Token(d) == TokenBase + 2 * (d - 1)

VARIABLES
  tkoThreshold,             \* TkoTracker::tkoThreshold_, per tracker
  sumFailures,              \* TkoTracker::sumFailures_, per tracker
  consecutiveFailureCount,  \* TkoTracker::consecutiveFailureCount_, per tracker
  softTkos,                 \* TkoTrackerMap::globalTkos_.softTkos
  hardTkos,                 \* TkoTrackerMap::globalTkos_.hardTkos
  tracker,                  \* ProxyDestination::tracker, per destination
  pc,                       \* position of each destination's current call
  op,                       \* the call a destination is in
  curSumFailures,           \* local curSumFailures of the running call
  value,                    \* local value of the running call
  ret,                      \* the call's return value
  startSum,                 \* history: sumFailures_ when the call began
  dSoft,                    \* history: the call's own net change of softTkos
  dHard,                    \* history: the call's own net change of hardTkos
  intf,                     \* history: what other destinations did to sumFailures_ during the call
  callsLeft,                \* calls the caller may still issue, -1: any number
  assertFailed,             \* assert(oldSoftTkos != 0) failed at some point
  hardWrapped,              \* --hardTkos ran at 0 at some point
  trackers_,                \* TkoTrackerMap::trackers_: key -> weak_ptr (0: no entry)
  mx_,                      \* TkoTrackerMap::mx_: the thread holding it, 0 when free
  refs,                     \* strong reference count of each TkoTracker object
  nextObj,                  \* number of TkoTracker objects allocated so far
  key_,                     \* TkoTracker::key_, the key an object was registered under
  dangling,                 \* key_ points into a map node that has been erased
  failures,                 \* consecutiveFailureCount() of an object, 0 or 1 (at least 1)
  hostKey,                  \* pdstn.accessPoint()->toHostPortString()
  pdstnTracker,             \* pdstn.tracker as an object of the registry (0: empty)
  utTracker,                \* the local shared_ptr "tracker" of updateTracker
  mpc,                      \* position of each thread in its registry operation
  dying,                    \* the object whose destructor a thread is running
  todo,                     \* entries foreachTkoTracker has still to visit
  lockedTrackers,           \* the vector lockedTrackers of foreachTkoTracker
  result,                   \* the result of getSuspectServers, as the set of its keys
  watch,                    \* history: objects held with failures since the scan began
  opsLeft,                  \* registry operations a thread may still start
  relocked                  \* a thread locked mx_ while holding it

vars == <<tkoThreshold, sumFailures, consecutiveFailureCount, softTkos, hardTkos,
          tracker, pc, op, curSumFailures, value, ret, startSum, dSoft, dHard,
          intf, callsLeft, assertFailed, hardWrapped, trackers_, mx_, refs,
          nextObj, key_, dangling, failures, hostKey, pdstnTracker, utTracker,
          mpc, dying, todo, lockedTrackers, result, watch, opsLeft, relocked>>

\* ------------------------------------------------------- word arithmetic
ClearLowBit(w) == w - (w % 2)
SetLowBit(w) == IF w % 2 = 0 THEN (w + 1) % Mod ELSE w
WordDec(w) == (w + Mod - 1) % Mod
WordInc(w) == (w + 1) % Mod

\* ------------------------------------------------------------ predicates
HardTkoWord(w, thr) == w > thr /\ w % 2 = 1
SoftTkoWord(w, thr) == w > thr /\ w % 2 = 0
TkoWord(w, thr) == w > thr
\* variant: the comparison without "& ~1"
ResponsibleWordExact(w, d) == w = Token(d)
ResponsibleWord(w, d) == ClearLowBit(w) = Token(d)

isHardTko(t) == HardTkoWord(sumFailures[t], tkoThreshold[t])
\* variant: isSoftTko without the parity test
isSoftTkoNoParity(t) == TkoWord(sumFailures[t], tkoThreshold[t])
isSoftTko(t) == SoftTkoWord(sumFailures[t], tkoThreshold[t])
isTko(t) == TkoWord(sumFailures[t], tkoThreshold[t])
isResponsible(t, d) == ResponsibleWord(sumFailures[t], d)

\* --------------------------------------------------------------- initial
\* the registry before any destination has asked for a tracker
EmptyRegistry ==
  /\ trackers_ = [k \in Keys |-> 0]
  /\ mx_ = 0
  /\ refs = [o \in Objs |-> 0]
  /\ nextObj = 0
  /\ key_ = [o \in Objs |-> 0]
  /\ dangling = [o \in Objs |-> FALSE]
  /\ failures = [o \in Objs |-> 0]
  /\ pdstnTracker = [d \in Dests |-> 0]
  /\ utTracker = [d \in Dests |-> 0]
  /\ mpc = [th \in Threads |-> "idle"]
  /\ dying = [th \in Threads |-> 0]
  /\ todo = {}
  /\ lockedTrackers = {}
  /\ result = {}
  /\ watch = {}
  /\ relocked = FALSE

\* the registry left at rest while the calls on the trackers are examined
RegistryAtRest ==
  /\ EmptyRegistry
  /\ hostKey = [d \in Dests |-> 1]
  /\ opsLeft = [th \in Threads |-> 0]

Init ==
  /\ tkoThreshold \in [Trackers -> 1..MaxThreshold]
  /\ sumFailures = [t \in Trackers |-> 0]
  /\ consecutiveFailureCount = [t \in Trackers |-> 0]
  /\ softTkos = 0
  /\ hardTkos = 0
  /\ tracker \in {f \in [Dests -> Trackers] : f[1] = 1}
  /\ pc = [d \in Dests |-> "idle"]
  /\ op = [d \in Dests |-> "none"]
  /\ curSumFailures = [d \in Dests |-> 0]
  /\ value = [d \in Dests |-> 0]
  /\ ret = [d \in Dests |-> FALSE]
  /\ startSum = [d \in Dests |-> 0]
  /\ dSoft = [d \in Dests |-> 0]
  /\ dHard = [d \in Dests |-> 0]
  /\ intf = [d \in Dests |-> 0]
  /\ callsLeft = [d \in Dests |-> -1]
  /\ assertFailed = FALSE
  /\ hardWrapped = FALSE
  /\ RegistryAtRest

\* ------------------------------------------------------- step vocabulary
Goto(d, l) == pc' = [pc EXCEPT ![d] = l]

\* return b: the call is over and its result is visible to the caller
Finish(d, b) ==
  /\ pc' = [pc EXCEPT ![d] = "done"]
  /\ ret' = [ret EXCEPT ![d] = b]

\* the call begins: the history of the call is reset
Begin(d, o) ==
  /\ pc[d] = "idle"
  /\ op' = [op EXCEPT ![d] = o]
  /\ startSum' = [startSum EXCEPT ![d] = sumFailures[tracker[d]]]
  /\ callsLeft[d] # 0
  /\ callsLeft' = [callsLeft EXCEPT ![d] = IF @ > 0 THEN @ - 1 ELSE @]

\* the identity stored in a word: 0 when the word is a failure count
Owner(w, thr) == IF TkoWord(w, thr) THEN ClearLowBit(w) ELSE 0

Max(a, b) == IF a >= b THEN a ELSE b

\* how a write of w over v interferes with the calls of the others:
\* 0 not at all, 1 the word changed, 2 the stored identity changed
Interference(v, w, thr) ==
  IF Owner(v, thr) # Owner(w, thr) THEN 2 ELSE IF v # w THEN 1 ELSE 0

\* a write of sumFailures_ of d's tracker, seen by every other destination
\* whose call on the same tracker has begun and has not been handed back
WriteSum(d, w) ==
  /\ sumFailures' = [sumFailures EXCEPT ![tracker[d]] = w]
  /\ intf' = [e \in Dests |->
               IF e # d /\ tracker[e] = tracker[d] /\ pc[e] # "idle"
               THEN Max(intf[e], Interference(sumFailures[tracker[d]], w,
                                              tkoThreshold[tracker[d]]))
               ELSE intf[e]]

incrementSoftTkoCount(d) ==
  /\ softTkos' = WordInc(softTkos)
  /\ dSoft' = [dSoft EXCEPT ![d] = @ + 1]

decrementSoftTkoCount(d) ==
  /\ softTkos' = WordDec(softTkos)
  /\ assertFailed' = (assertFailed \/ softTkos = 0)
  /\ dSoft' = [dSoft EXCEPT ![d] = @ - 1]

incrementHardTkoCount(d) ==
  /\ hardTkos' = WordInc(hardTkos)
  /\ dHard' = [dHard EXCEPT ![d] = @ + 1]

\* variant: ++ written for --
decrementHardTkoCountWrong(d) ==
  /\ hardTkos' = WordInc(hardTkos)
  /\ hardWrapped' = hardWrapped
  /\ dHard' = [dHard EXCEPT ![d] = @ + 1]

decrementHardTkoCount(d) ==
  /\ hardTkos' = WordDec(hardTkos)
  /\ hardWrapped' = (hardWrapped \/ hardTkos = 0)
  /\ dHard' = [dHard EXCEPT ![d] = @ - 1]

incrementConsecutiveFailureCount(d) ==
  /\ consecutiveFailureCount[tracker[d]] < MaxConsec
  /\ consecutiveFailureCount' =
       [consecutiveFailureCount EXCEPT ![tracker[d]] = @ + 1]

resetConsecutiveFailureCount(d) ==
  consecutiveFailureCount' = [consecutiveFailureCount EXCEPT ![tracker[d]] = 0]

\* what a step leaves alone
registry == <<trackers_, mx_, refs, nextObj, key_, dangling, failures, hostKey,
              pdstnTracker, utTracker, mpc, dying, todo, lockedTrackers, result,
              watch, opsLeft, relocked>>
config == <<tkoThreshold, tracker, registry>>
softCounter == <<softTkos, dSoft, assertFailed>>
hardCounter == <<hardTkos, dHard, hardWrapped>>
locals == <<curSumFailures, value>>
sumState == <<sumFailures, intf>>
callState == <<op, startSum, callsLeft>>

\* ---------------------------------------------------- recordSoftFailure
\* the value the loop body is about to install, and the loop's result
\* variant: the limit compared one failure late
AboutToSoftTkoLate(cur, thr) == cur = thr
AboutToSoftTko(cur, thr) == cur = WordDec(thr)
SoftNextValue(cur, thr, d) == IF AboutToSoftTko(cur, thr) THEN Token(d) ELSE WordInc(cur)
\* variant: every successful compare-and-swap reported as a TKO
SoftResultAlways(v, d) == TRUE
SoftResult(v, d) == v = Token(d)

\* ++consecutiveFailureCount_
SoftStart(d) ==
  /\ Begin(d, "soft")
  /\ incrementConsecutiveFailureCount(d)
  /\ Goto(d, "sf_isTko")
  /\ UNCHANGED <<config, sumState, softCounter, hardCounter, locals, ret>>

\* if (isTko()) return false
SoftIsTko(d) ==
  /\ pc[d] = "sf_isTko"
  /\ IF isTko(tracker[d])
       THEN Finish(d, FALSE)
       ELSE Goto(d, "sf_load") /\ UNCHANGED ret
  /\ UNCHANGED <<config, sumState, consecutiveFailureCount, softCounter,
                 hardCounter, locals, callState>>

\* curSumFailures = sumFailures_; value = 0
SoftLoad(d) ==
  /\ pc[d] = "sf_load"
  /\ curSumFailures' = [curSumFailures EXCEPT ![d] = sumFailures[tracker[d]]]
  /\ value' = [value EXCEPT ![d] = 0]
  /\ Goto(d, "sf_body")
  /\ UNCHANGED <<config, sumState, consecutiveFailureCount, softCounter,
                 hardCounter, ret, callState>>

\* variant: the loop body without the "value != pdstnAddr" test, so that
\* every pass at the limit increments softTkos again
SoftBodyAlwaysInc(d) ==
  LET cur == curSumFailures[d]
      thr == tkoThreshold[tracker[d]]
  IN
  /\ pc[d] = "sf_body"
  /\ IF AboutToSoftTko(cur, thr)
       THEN /\ incrementSoftTkoCount(d) /\ UNCHANGED assertFailed
            /\ value' = [value EXCEPT ![d] = SoftNextValue(cur, thr, d)]
            /\ Goto(d, "sf_cas")
            /\ UNCHANGED ret
       ELSE /\ IF value[d] = Token(d)
                 THEN decrementSoftTkoCount(d)
                 ELSE UNCHANGED softCounter
            /\ IF TkoWord(cur, thr)
                 THEN Finish(d, FALSE) /\ UNCHANGED value
                 ELSE /\ value' = [value EXCEPT ![d] = SoftNextValue(cur, thr, d)]
                      /\ Goto(d, "sf_cas")
                      /\ UNCHANGED ret
  /\ UNCHANGED <<config, sumState, consecutiveFailureCount, hardCounter,
                 curSumFailures, callState>>
\* one pass through the body of the do-while loop
SoftBody(d) ==
  LET cur == curSumFailures[d]
      thr == tkoThreshold[tracker[d]]
  IN
  /\ pc[d] = "sf_body"
  /\ IF AboutToSoftTko(cur, thr)
       THEN /\ IF value[d] # Token(d)
                 THEN incrementSoftTkoCount(d) /\ UNCHANGED assertFailed
                 ELSE UNCHANGED softCounter
            /\ value' = [value EXCEPT ![d] = SoftNextValue(cur, thr, d)]
            /\ Goto(d, "sf_cas")
            /\ UNCHANGED ret
       ELSE /\ IF value[d] = Token(d)
                 THEN decrementSoftTkoCount(d)
                 ELSE UNCHANGED softCounter
            /\ IF TkoWord(cur, thr)
                 THEN Finish(d, FALSE) /\ UNCHANGED value
                 ELSE /\ value' = [value EXCEPT ![d] = SoftNextValue(cur, thr, d)]
                      /\ Goto(d, "sf_cas")
                      /\ UNCHANGED ret
  /\ UNCHANGED <<config, sumState, consecutiveFailureCount, hardCounter,
                 curSumFailures, callState>>

\* variant: a plain store in place of the compare-and-swap
SoftCasBlind(d) ==
  /\ pc[d] = "sf_cas"
  /\ WriteSum(d, value[d])
  /\ Finish(d, SoftResult(value[d], d))
  /\ UNCHANGED <<config, consecutiveFailureCount, softCounter, hardCounter,
                 locals, callState>>
\* sumFailures_.compare_exchange_weak(curSumFailures, value) succeeds
SoftCasOk(d) ==
  /\ pc[d] = "sf_cas"
  /\ sumFailures[tracker[d]] = curSumFailures[d]
  /\ WriteSum(d, value[d])
  /\ Finish(d, SoftResult(value[d], d))
  /\ UNCHANGED <<config, consecutiveFailureCount, softCounter, hardCounter,
                 locals, callState>>

\* variant: the failed compare-and-swap leaves curSumFailures as it was
SoftCasFailNoReload(d) ==
  /\ pc[d] = "sf_cas"
  /\ Goto(d, "sf_body")
  /\ UNCHANGED <<config, sumState, consecutiveFailureCount, softCounter,
                 hardCounter, locals, ret, callState>>
\* compare_exchange_weak fails (the word changed, or spuriously) and reloads
SoftCasFail(d) ==
  /\ pc[d] = "sf_cas"
  /\ curSumFailures' = [curSumFailures EXCEPT ![d] = sumFailures[tracker[d]]]
  /\ Goto(d, "sf_body")
  /\ UNCHANGED <<config, sumState, consecutiveFailureCount, softCounter,
                 hardCounter, value, ret, callState>>

\* ----------------------------------------------------- setSumFailures
\* the test of the loop: a TKO word is left to the responsible destination
\* variant: the loop without its test
SetSumNeverBlocked(w, thr) == FALSE
SetSumBlocked(w, thr) == TkoWord(w, thr)

\* setSumFailures returned false: both callers then return false
SetSumGiveUp(d) == Finish(d, FALSE)

\* setSumFailures returned true: recordHardFailure has success = true,
\* recordSuccess goes on to clear the failure count and returns false
SetSumDone(d) ==
  IF op[d] = "hard"
    THEN Goto(d, "hf_took") /\ ret' = [ret EXCEPT ![d] = TRUE]
    ELSE Goto(d, "rs_reset") /\ UNCHANGED ret

\* curSumFailures = sumFailures_, then the first test of the loop
SetSumLoad(d) ==
  /\ pc[d] = "ssf_load"
  /\ curSumFailures' = [curSumFailures EXCEPT ![d] = sumFailures[tracker[d]]]
  /\ IF SetSumBlocked(sumFailures[tracker[d]], tkoThreshold[tracker[d]])
       THEN SetSumGiveUp(d)
       ELSE Goto(d, "ssf_cas") /\ UNCHANGED ret
  /\ UNCHANGED <<config, sumState, consecutiveFailureCount, softCounter,
                 hardCounter, value, callState>>

SetSumCasOk(d) ==
  /\ pc[d] = "ssf_cas"
  /\ sumFailures[tracker[d]] = curSumFailures[d]
  /\ WriteSum(d, value[d])
  /\ SetSumDone(d)
  /\ UNCHANGED <<config, consecutiveFailureCount, softCounter, hardCounter,
                 locals, callState>>

SetSumCasFail(d) ==
  /\ pc[d] = "ssf_cas"
  /\ curSumFailures' = [curSumFailures EXCEPT ![d] = sumFailures[tracker[d]]]
  /\ IF SetSumBlocked(sumFailures[tracker[d]], tkoThreshold[tracker[d]])
       THEN SetSumGiveUp(d)
       ELSE UNCHANGED <<pc, ret>>
  /\ UNCHANGED <<config, sumState, consecutiveFailureCount, softCounter,
                 hardCounter, value, callState>>

\* ---------------------------------------------------- recordHardFailure
\* variant: the identity published without its low bit
HardValueNoTag(d) == Token(d)
HardValue(d) == SetLowBit(Token(d))
\* variant: the upgrade that leaves the word as it was
UpgradeValueNone(w) == w
UpgradeValue(w) == SetLowBit(w)

\* ++consecutiveFailureCount_
HardStart(d) ==
  /\ Begin(d, "hard")
  /\ incrementConsecutiveFailureCount(d)
  /\ Goto(d, "hf_isHard")
  /\ UNCHANGED <<config, sumState, softCounter, hardCounter, locals, ret>>

\* if (isHardTko()) return false
HardIsHardTko(d) ==
  /\ pc[d] = "hf_isHard"
  /\ IF isHardTko(tracker[d])
       THEN Finish(d, FALSE)
       ELSE Goto(d, "hf_isResp") /\ UNCHANGED ret
  /\ UNCHANGED <<config, sumState, consecutiveFailureCount, softCounter,
                 hardCounter, locals, callState>>

\* if (isResponsible(pdstn)) ... else setSumFailures(pdstn | 1)
HardIsResponsible(d) ==
  /\ pc[d] = "hf_isResp"
  /\ IF isResponsible(tracker[d], d)
       THEN Goto(d, "hf_or") /\ UNCHANGED value
       ELSE /\ Goto(d, "ssf_load")
            /\ value' = [value EXCEPT ![d] = HardValue(d)]
  /\ UNCHANGED <<config, sumState, consecutiveFailureCount, softCounter,
                 hardCounter, curSumFailures, ret, callState>>

\* sumFailures_ |= 1
HardUpgrade(d) ==
  /\ pc[d] = "hf_or"
  /\ WriteSum(d, UpgradeValue(sumFailures[tracker[d]]))
  /\ Goto(d, "hf_dec")
  /\ UNCHANGED <<config, consecutiveFailureCount, softCounter, hardCounter,
                 locals, ret, callState>>

\* variant: the upgrade that forgets the soft counter
HardUpgradeNoDec(d) ==
  /\ pc[d] = "hf_dec"
  /\ Goto(d, "hf_inc")
  /\ UNCHANGED <<config, sumState, consecutiveFailureCount, softCounter,
                 hardCounter, locals, ret, callState>>

\* decrementSoftTkoCount()
HardUpgradeDec(d) ==
  /\ pc[d] = "hf_dec"
  /\ decrementSoftTkoCount(d)
  /\ Goto(d, "hf_inc")
  /\ UNCHANGED <<config, sumState, consecutiveFailureCount, hardCounter,
                 locals, ret, callState>>

\* ++hardTkos; return false
HardUpgradeInc(d) ==
  /\ pc[d] = "hf_inc"
  /\ incrementHardTkoCount(d)
  /\ Finish(d, FALSE)
  /\ UNCHANGED <<config, sumState, consecutiveFailureCount, softCounter,
                 hardWrapped, locals, callState>>

\* variant: responsibility taken without counting it
HardTookNoInc(d) ==
  /\ pc[d] = "hf_took"
  /\ Goto(d, "done")
  /\ UNCHANGED <<config, sumState, consecutiveFailureCount, softCounter,
                 hardCounter, locals, ret, callState>>

\* if (success) ++hardTkos; return success
HardTook(d) ==
  /\ pc[d] = "hf_took"
  /\ incrementHardTkoCount(d)
  /\ Goto(d, "done")
  /\ UNCHANGED <<config, sumState, consecutiveFailureCount, softCounter,
                 hardWrapped, locals, ret, callState>>

\* -------------------------------------------------------- recordSuccess
ClearedValue == 0

\* if (isResponsible(pdstn)) { ... } else if (sumFailures_ != 0 && ...)
SuccessBranch(d) ==
  Goto(d, IF isResponsible(tracker[d], d) THEN "rs_isSoft" ELSE "rs_nonzero")

SuccessStart(d) ==
  /\ Begin(d, "success")
  /\ SuccessBranch(d)
  /\ UNCHANGED <<config, sumState, consecutiveFailureCount, softCounter,
                 hardCounter, locals, ret>>

\* recordSuccess entered from removeDestination
SuccessIsResponsible(d) ==
  /\ pc[d] = "rs_isResp"
  /\ SuccessBranch(d)
  /\ UNCHANGED <<config, sumState, consecutiveFailureCount, softCounter,
                 hardCounter, locals, ret, callState>>

\* if (isSoftTko())
SuccessIsSoftTko(d) ==
  /\ pc[d] = "rs_isSoft"
  /\ Goto(d, IF isSoftTko(tracker[d]) THEN "rs_decSoft" ELSE "rs_isHard")
  /\ UNCHANGED <<config, sumState, consecutiveFailureCount, softCounter,
                 hardCounter, locals, ret, callState>>

\* decrementSoftTkoCount()
SuccessDecSoft(d) ==
  /\ pc[d] = "rs_decSoft"
  /\ decrementSoftTkoCount(d)
  /\ Goto(d, "rs_isHard")
  /\ UNCHANGED <<config, sumState, consecutiveFailureCount, hardCounter,
                 locals, ret, callState>>

\* if (isHardTko())
SuccessIsHardTko(d) ==
  /\ pc[d] = "rs_isHard"
  /\ Goto(d, IF isHardTko(tracker[d]) THEN "rs_decHard" ELSE "rs_store")
  /\ UNCHANGED <<config, sumState, consecutiveFailureCount, softCounter,
                 hardCounter, locals, ret, callState>>

\* --trackerMap_.globalTkos_.hardTkos
SuccessDecHard(d) ==
  /\ pc[d] = "rs_decHard"
  /\ decrementHardTkoCount(d)
  /\ Goto(d, "rs_store")
  /\ UNCHANGED <<config, sumState, consecutiveFailureCount, softCounter,
                 locals, ret, callState>>

\* sumFailures_ = 0
SuccessStore(d) ==
  /\ pc[d] = "rs_store"
  /\ WriteSum(d, ClearedValue)
  /\ Goto(d, "rs_clear")
  /\ UNCHANGED <<config, consecutiveFailureCount, softCounter, hardCounter,
                 locals, ret, callState>>

\* consecutiveFailureCount_ = 0; return true
SuccessClear(d) ==
  /\ pc[d] = "rs_clear"
  /\ resetConsecutiveFailureCount(d)
  /\ Finish(d, TRUE)
  /\ UNCHANGED <<config, sumState, softCounter, hardCounter, locals, callState>>

\* if (sumFailures_ != 0 && setSumFailures(0))
SuccessNonZero(d) ==
  /\ pc[d] = "rs_nonzero"
  /\ IF sumFailures[tracker[d]] # 0
       THEN /\ Goto(d, "ssf_load")
            /\ value' = [value EXCEPT ![d] = ClearedValue]
            /\ UNCHANGED ret
       ELSE Finish(d, FALSE) /\ UNCHANGED value
  /\ UNCHANGED <<config, sumState, consecutiveFailureCount, softCounter,
                 hardCounter, curSumFailures, callState>>

\* variant: the non-responsible recordSuccess returns without the reset
SuccessResetKeep(d) ==
  /\ pc[d] = "rs_reset"
  /\ Finish(d, FALSE)
  /\ UNCHANGED <<config, sumState, consecutiveFailureCount, softCounter,
                 hardCounter, locals, callState>>
\* consecutiveFailureCount_ = 0; return false
SuccessReset(d) ==
  /\ pc[d] = "rs_reset"
  /\ resetConsecutiveFailureCount(d)
  /\ Finish(d, FALSE)
  /\ UNCHANGED <<config, sumState, softCounter, hardCounter, locals, callState>>

\* ---------------------------------------------------- removeDestination
\* if (isResponsible(pdstn)) return recordSuccess(pdstn); return false
RemoveStart(d) ==
  /\ Begin(d, "remove")
  /\ IF isResponsible(tracker[d], d)
       THEN Goto(d, "rs_isResp") /\ UNCHANGED ret
       ELSE Finish(d, FALSE)
  /\ UNCHANGED <<config, sumState, consecutiveFailureCount, softCounter,
                 hardCounter, locals>>

\* ------------------------------------------------------------ the caller
\* the caller has the result; the destination may issue its next call
Return(d) ==
  /\ pc[d] = "done"
  /\ pc' = [pc EXCEPT ![d] = "idle"]
  /\ op' = [op EXCEPT ![d] = "none"]
  /\ curSumFailures' = [curSumFailures EXCEPT ![d] = 0]
  /\ value' = [value EXCEPT ![d] = 0]
  /\ ret' = [ret EXCEPT ![d] = FALSE]
  /\ startSum' = [startSum EXCEPT ![d] = 0]
  /\ dSoft' = [dSoft EXCEPT ![d] = 0]
  /\ dHard' = [dHard EXCEPT ![d] = 0]
  /\ intf' = [intf EXCEPT ![d] = 0]
  /\ UNCHANGED <<config, sumFailures, consecutiveFailureCount, softTkos,
                 hardTkos, callsLeft, assertFailed, hardWrapped>>

recordSoftFailure(d) ==
  \/ SoftStart(d)
  \/ SoftIsTko(d)
  \/ SoftLoad(d)
  \/ SoftBody(d)
  \/ SoftCasOk(d)
  \/ SoftCasFail(d)

setSumFailures(d) ==
  \/ SetSumLoad(d)
  \/ SetSumCasOk(d)
  \/ SetSumCasFail(d)

recordHardFailure(d) ==
  \/ HardStart(d)
  \/ HardIsHardTko(d)
  \/ HardIsResponsible(d)
  \/ HardUpgrade(d)
  \/ HardUpgradeDec(d)
  \/ HardUpgradeInc(d)
  \/ HardTook(d)

recordSuccess(d) ==
  \/ SuccessStart(d)
  \/ SuccessIsResponsible(d)
  \/ SuccessIsSoftTko(d)
  \/ SuccessDecSoft(d)
  \/ SuccessIsHardTko(d)
  \/ SuccessDecHard(d)
  \/ SuccessStore(d)
  \/ SuccessClear(d)
  \/ SuccessNonZero(d)
  \/ SuccessReset(d)

removeDestination(d) == RemoveStart(d)

Next ==
  \E d \in Dests :
    \/ recordSoftFailure(d)
    \/ setSumFailures(d)
    \/ recordHardFailure(d)
    \/ recordSuccess(d)
    \/ removeDestination(d)
    \/ Return(d)

Spec == Init /\ [][Next]_vars

\* ------------------------------------------------------------ vocabulary
Threshold(d) == tkoThreshold[tracker[d]]
Word(d) == sumFailures[tracker[d]]
Holders(t) == {d \in Dests : tracker[d] = t}
Responsibles(t) == {d \in Dests : isResponsible(t, d)}
Returned(d) == pc[d] = "done"
Quiescent == \A d \in Dests : pc[d] \in {"idle", "done"}
Moves(d) == pc'[d] # pc[d]
StartedTko(d) == TkoWord(startSum[d], Threshold(d))
StartedResponsible(d) == ResponsibleWord(startSum[d], d)

\* C1: in every reachable state at most one destination is responsible for
\* a tracker, and a tracker that is TKO has exactly one responsible
\* destination among those that hold it.
C1_OneResponsible ==
  \A t \in Trackers :
    /\ Cardinality(Responsibles(t)) <= 1
    /\ isTko(t) => Cardinality({d \in Holders(t) : isResponsible(t, d)}) = 1

\* a hard TKO owned by one destination while the other is about to
\* compare-and-swap on the same tracker
C1_Witness ==
  \E d, e \in Dests :
    /\ d # e /\ tracker[d] = tracker[e]
    /\ isHardTko(tracker[d]) /\ isResponsible(tracker[d], d)
    /\ pc[e] \in {"sf_cas", "ssf_cas"}

\* C2, returned calls: a call that began while another destination was
\* responsible, and during which that destination stayed responsible, has
\* returned false and has not changed softTkos or hardTkos.
C2_ReturnedFrame ==
  \A b \in Dests :
    (Returned(b) /\ StartedTko(b) /\ ~StartedResponsible(b) /\ intf[b] < 2)
      => (~ret[b] /\ dSoft[b] = 0 /\ dHard[b] = 0)

\* C2, steps: a TKO word changes only by a step of the responsible
\* destination: to 0 in recordSuccess or removeDestination, or from soft to
\* hard in recordHardFailure.
C2_StepFrame ==
  \A t \in Trackers :
    (isTko(t) /\ sumFailures'[t] # sumFailures[t]) =>
      \E a \in Holders(t) :
        /\ isResponsible(t, a)
        /\ Moves(a)
        /\ IF TkoWord(sumFailures'[t], tkoThreshold[t])
             THEN /\ op[a] = "hard"
                  /\ isSoftTko(t)
                  /\ sumFailures'[t] = SetLowBit(Token(a))
             ELSE /\ op[a] \in {"success", "remove"}
                  /\ sumFailures'[t] = 0

\* C2: responsibility never transfers (both parts above).
C2_NoTransfer == [](C2_ReturnedFrame) /\ [][C2_StepFrame]_vars

\* a recordHardFailure by the other destination has returned under a TKO
\* that stayed with its owner
C2_Witness ==
  \E b \in Dests :
    /\ Returned(b) /\ op[b] = "hard"
    /\ StartedTko(b) /\ ~StartedResponsible(b) /\ intf[b] < 2
    /\ isSoftTko(tracker[b])

\* C3: whenever every started call has returned, softTkos is the number of
\* trackers in soft TKO and hardTkos the number of trackers in hard TKO.
C3_CountersMatch ==
  Quiescent =>
    /\ softTkos = Cardinality({t \in Trackers : isSoftTko(t)})
    /\ hardTkos = Cardinality({t \in Trackers : isHardTko(t)})

\* one tracker in soft TKO, the other upgraded to hard TKO, nothing running
C3_Witness ==
  /\ Quiescent
  /\ softTkos = 1 /\ hardTkos = 1
  /\ \E d \in Dests : Returned(d) /\ op[d] = "hard" /\ dSoft[d] = -1

\* C4: softTkos and hardTkos are never decremented at 0: the assertion of
\* decrementSoftTkoCount never fails and --hardTkos never wraps.
C4_NoUnderflow == ~assertFailed /\ ~hardWrapped

\* a recordSoftFailure has taken back its speculative increment in the pass
\* that found the tracker TKO, bringing softTkos back to 0
C4_Witness ==
  \E d \in Dests :
    /\ Returned(d) /\ op[d] = "soft" /\ ~ret[d]
    /\ value[d] = Token(d)
    /\ softTkos = 0

\* C5, steps: a recordSoftFailure(d) call gets the result true in exactly
\* the step that moves its tracker from non-TKO to soft TKO with d's
\* identity, so each entry into soft TKO has exactly one such call.
C5_SoftTrueStep ==
  /\ \A d \in Dests :
       (pc[d] # "done" /\ pc'[d] = "done" /\ op[d] = "soft" /\ ret'[d])
         <=> (~isTko(tracker[d]) /\ sumFailures'[tracker[d]] = Token(d))
  /\ \A t \in Trackers :
       (~isTko(t) /\ SoftTkoWord(sumFailures'[t], tkoThreshold[t])) =>
         Cardinality({d \in Holders(t) :
                        pc'[d] = "done" /\ op[d] = "soft" /\ ret'[d] /\ Moves(d)}) = 1

\* C5: recordSoftFailure returns true iff its compare-and-swap entered soft
\* TKO, once per entry.
C5_SoftTrueOnce == [][C5_SoftTrueStep]_vars

\* two recordSoftFailure calls raced at the limit: one returned true, the
\* other took back its increment and returned false
C5_Witness ==
  \E d, e \in Dests :
    /\ d # e /\ tracker[d] = tracker[e]
    /\ Returned(d) /\ op[d] = "soft" /\ ret[d]
    /\ Returned(e) /\ op[e] = "soft" /\ ~ret[e] /\ value[e] = Token(e)

\* C6 as stated: every transition of a tracker into the hard-TKO state
\* coincides with a recordHardFailure call whose result becomes true.
C6_EveryHardEntryReturnsTrue ==
  [][\A t \in Trackers :
       (~isHardTko(t) /\ HardTkoWord(sumFailures'[t], tkoThreshold[t])) =>
         Cardinality({d \in Holders(t) :
                        op[d] = "hard" /\ ~ret[d] /\ ret'[d]}) = 1]_vars

\* C6, steps: the result of recordHardFailure(d) becomes true in exactly the
\* step that moves its tracker from non-TKO to hard TKO with d's identity,
\* and stays true until the call has returned; the step that upgrades a
\* soft TKO to hard TKO belongs to a call of the responsible destination
\* whose result is false.
C6_HardTrueStep ==
  /\ \A d \in Dests :
       /\ (op[d] = "hard" /\ ~ret[d] /\ ret'[d])
            <=> (~isTko(tracker[d])
                 /\ sumFailures'[tracker[d]] = SetLowBit(Token(d)))
       /\ (op[d] = "hard" /\ ret[d] /\ pc[d] # "done") => ret'[d]
  /\ \A t \in Trackers :
       (isSoftTko(t) /\ HardTkoWord(sumFailures'[t], tkoThreshold[t])) =>
         \E d \in Holders(t) :
           /\ isResponsible(t, d) /\ pc[d] = "hf_or" /\ Moves(d)
           /\ ~ret'[d]

\* C6, returned calls: a recordHardFailure that upgraded returns false.
C6_UpgradeReturnsFalse ==
  \A d \in Dests :
    (op[d] = "hard" /\ pc[d] \in {"hf_dec", "hf_inc", "done"} /\ StartedResponsible(d))
      => ~ret[d]

\* C6, amended: true is returned once per entry into hard TKO from a
\* non-TKO state; the soft-to-hard upgrade returns false.
C6_HardTrueOncePerFreshEntry ==
  [](C6_UpgradeReturnsFalse) /\ [][C6_HardTrueStep]_vars

\* one tracker was upgraded by a call that returned false while the other
\* was put into hard TKO by a call that returned true
C6_Witness ==
  \E d, e \in Dests :
    /\ d # e
    /\ Returned(d) /\ op[d] = "hard" /\ ~ret[d] /\ dSoft[d] = -1 /\ dHard[d] = 1
    /\ isHardTko(tracker[d])
    /\ Returned(e) /\ op[e] = "hard" /\ ret[e] /\ isHardTko(tracker[e])

\* C7, returned calls: recordSuccess(d) and removeDestination(d) that began
\* with d responsible have returned true, have decremented the counter of
\* the severity the tracker had and not the other one, and d is no longer
\* responsible; removeDestination(d) that began with d not responsible has
\* returned false without touching the counters.
C7_ReturnedClear ==
  \A d \in Dests :
    (Returned(d) /\ op[d] \in {"success", "remove"}) =>
      IF StartedResponsible(d)
        THEN /\ ret[d]
             /\ dSoft[d] = (IF startSum[d] % 2 = 0 THEN -1 ELSE 0)
             /\ dHard[d] = (IF startSum[d] % 2 = 1 THEN -1 ELSE 0)
             /\ ~isResponsible(tracker[d], d)
        ELSE op[d] = "remove" => (~ret[d] /\ dSoft[d] = 0 /\ dHard[d] = 0)

\* C7, steps: the store of the responsible branch leaves the word at 0, the
\* tracker not TKO and nobody responsible; removeDestination(d) with d not
\* responsible is one step that changes no tracker or counter state.
C7_StepClear ==
  \A d \in Dests :
    /\ (pc[d] = "rs_store" /\ Moves(d)) =>
         /\ sumFailures'[tracker[d]] = 0
         /\ ~TkoWord(sumFailures'[tracker[d]], Threshold(d))
         /\ \A e \in Dests : ~ResponsibleWord(sumFailures'[tracker[d]], e)
    /\ (pc[d] = "idle" /\ op'[d] = "remove" /\ ~isResponsible(tracker[d], d)) =>
         /\ pc'[d] = "done" /\ ~ret'[d]
         /\ UNCHANGED <<sumFailures, consecutiveFailureCount, softTkos, hardTkos>>

\* C7: the responsible destination clears the TKO (both parts above).
C7_ResponsibleClears == [](C7_ReturnedClear) /\ [][C7_StepClear]_vars

\* removeDestination has cleared a hard TKO while the other destination is
\* inside a call on the same tracker
C7_Witness ==
  \E d, e \in Dests :
    /\ d # e /\ tracker[d] = tracker[e]
    /\ Returned(d) /\ op[d] = "remove" /\ ret[d] /\ dHard[d] = -1
    /\ pc[e] \notin {"idle", "done"}

\* C8: the failure count of a tracker that is not TKO stays below the
\* threshold, and a recordSoftFailure(d) call that ran from count k with no
\* other write of the word returns false and leaves count k + 1 when
\* k < threshold - 1, and returns true, leaves the tracker in soft TKO with
\* d responsible and has incremented softTkos once when k = threshold - 1.
C8_ThresholdCount ==
  /\ \A t \in Trackers : ~isTko(t) => sumFailures[t] < tkoThreshold[t]
  /\ \A d \in Dests :
       (Returned(d) /\ op[d] = "soft" /\ ~StartedTko(d) /\ intf[d] = 0) =>
         IF startSum[d] = Threshold(d) - 1
           THEN /\ ret[d]
                /\ Word(d) = Token(d)
                /\ isSoftTko(tracker[d]) /\ isResponsible(tracker[d], d)
                /\ dSoft[d] = 1 /\ dHard[d] = 0
           ELSE /\ ~ret[d]
                /\ Word(d) = startSum[d] + 1
                /\ ~isTko(tracker[d])
                /\ dSoft[d] = 0 /\ dHard[d] = 0

\* the threshold-th soft failure in a row on a tracker of the largest
\* threshold has returned true
C8_Witness ==
  \E d \in Dests :
    /\ Returned(d) /\ op[d] = "soft" /\ intf[d] = 0 /\ ret[d]
    /\ Threshold(d) = MaxThreshold
    /\ startSum[d] = MaxThreshold - 1
    /\ consecutiveFailureCount[tracker[d]] = MaxThreshold

\* C9: a recordHardFailure(d) call that began on a tracker that was not TKO,
\* and during which no other destination took the tracker, has returned
\* true with the tracker in hard TKO, d responsible, hardTkos incremented
\* once and softTkos untouched; of two such calls racing on one tracker
\* exactly one has returned true.
C9_HardBypass ==
  /\ \A d \in Dests :
       (Returned(d) /\ op[d] = "hard" /\ ~StartedTko(d) /\ intf[d] < 2) =>
         /\ ret[d]
         /\ Word(d) = SetLowBit(Token(d))
         /\ isHardTko(tracker[d]) /\ isResponsible(tracker[d], d)
         /\ dHard[d] = 1 /\ dSoft[d] = 0
  /\ \A d, e \in Dests :
       (/\ d # e /\ tracker[d] = tracker[e]
        /\ Returned(d) /\ op[d] = "hard" /\ ~StartedTko(d)
        /\ Returned(e) /\ op[e] = "hard" /\ ~StartedTko(e))
         => (ret[d] # ret[e])

\* two recordHardFailure calls raced on a tracker that had failures below
\* the threshold: one has returned true, the other false
C9_Witness ==
  \E d, e \in Dests :
    /\ d # e /\ tracker[d] = tracker[e]
    /\ Returned(d) /\ op[d] = "hard" /\ ~StartedTko(d) /\ startSum[d] > 0 /\ ret[d]
    /\ Returned(e) /\ op[e] = "hard" /\ ~StartedTko(e) /\ ~ret[e]

\* C10: a recordHardFailure(a) call that began in soft TKO with a
\* responsible has returned false with the tracker in hard TKO and not in
\* soft TKO, a still responsible, softTkos decremented once and hardTkos
\* incremented once.
C10_SoftToHardUpgrade ==
  \A a \in Dests :
    (Returned(a) /\ op[a] = "hard" /\ startSum[a] = Token(a)) =>
      /\ ~ret[a]
      /\ Word(a) = Token(a) + 1
      /\ isHardTko(tracker[a]) /\ ~isSoftTko(tracker[a])
      /\ isResponsible(tracker[a], a)
      /\ dSoft[a] = -1 /\ dHard[a] = 1

\* the upgrade has returned while the other destination is inside a call on
\* the same tracker, and the counters read 0 soft and 1 hard
C10_Witness ==
  \E a, b \in Dests :
    /\ a # b /\ tracker[a] = tracker[b]
    /\ Returned(a) /\ op[a] = "hard" /\ startSum[a] = Token(a)
    /\ pc[b] \notin {"idle", "done"}
    /\ softTkos = 0 /\ hardTkos = 1

\* ------------------------------------------------- steps seen by a tracker
\* a recordSoftFailure or recordHardFailure call on t begins
FailureCallBegins(t) ==
  \E d \in Holders(t) :
    pc[d] = "idle" /\ pc'[d] # "idle" /\ op'[d] \in {"soft", "hard"}

\* a recordSuccess call on t hands back true
TrueSuccessReturns(t) ==
  \E d \in Holders(t) :
    /\ pc[d] \notin {"idle", "done"} /\ pc'[d] = "done"
    /\ op[d] \in {"success", "remove"} /\ ret'[d] = TRUE

\* a recordSuccess call of a destination that was not responsible hands
\* back false after its setSumFailures(0) succeeded
ClearingSuccessReturns(t) ==
  \E d \in Holders(t) : pc[d] = "rs_reset" /\ pc'[d] = "done"

\* the count after a step when exactly the calls named by reset restart it
CountFollows(t, reset) ==
  consecutiveFailureCount'[t] =
    IF reset THEN 0
    ELSE IF FailureCallBegins(t) THEN consecutiveFailureCount[t] + 1
    ELSE consecutiveFailureCount[t]

\* C11 as stated: consecutive_failure_count is the number of
\* recordSoftFailure and recordHardFailure calls made on the tracker since
\* the most recent recordSuccess call that returned true, that is, every
\* failure call adds one and only a recordSuccess returning true restarts it.
C11_FailuresSinceTrueSuccess ==
  [][\A t \in Trackers : CountFollows(t, TrueSuccessReturns(t))]_vars

\* C11: consecutive_failure_count is the number of recordSoftFailure and
\* recordHardFailure calls begun on the tracker since the return of the most
\* recent recordSuccess call that restarted it, and the calls that restart it
\* are those returning true and also those of a destination that was not
\* responsible whose setSumFailures(0) succeeded, which return false.
C11_FailuresSinceClearingSuccess ==
  [][\A t \in Trackers :
       CountFollows(t, TrueSuccessReturns(t) \/ ClearingSuccessReturns(t))]_vars

\* a recordSuccess that returned false has restarted the count although a
\* failure recorded during the call is still in sumFailures_
C11_Witness ==
  \E d \in Dests :
    /\ Returned(d) /\ op[d] = "success" /\ ~ret[d]
    /\ curSumFailures[d] > 0 /\ ~TkoWord(curSumFailures[d], Threshold(d))
    /\ consecutiveFailureCount[tracker[d]] = 0
    /\ Word(d) > 0 /\ ~isTko(tracker[d])

\* the calls in progress on any tracker, and the trackers in soft TKO
CallsInProgress == {d \in Dests : pc[d] \notin {"idle", "done"}}
SoftTkoTrackers == {t \in Trackers : isSoftTko(t)}

\* C18: soft_tkos exceeds the number of trackers in soft TKO by at most the
\* number of calls in progress, and a recordSoftFailure call never holds
\* more than one speculative increment of its own, however often its
\* compare-and-swap fails and is retried.
C18_TransientOverCount ==
  /\ softTkos - Cardinality(SoftTkoTrackers) <= Cardinality(CallsInProgress)
  /\ \A d \in Dests : op[d] = "soft" => dSoft[d] \in {0, 1}

\* two racing recordSoftFailure calls on one tracker both hold a
\* speculative increment, one of them after a failed compare-and-swap
C18_Witness ==
  \E d, e \in Dests :
    /\ d # e /\ tracker[d] = tracker[e]
    /\ pc[d] = "sf_cas" /\ pc[e] = "sf_cas"
    /\ value[d] = Token(d) /\ value[e] = Token(e)
    /\ dSoft[d] = 1 /\ dSoft[e] = 1
    /\ intf[d] >= 1
    /\ softTkos = 2 /\ SoftTkoTrackers = {}

\* C20: whenever no call is in progress on a tracker and the tracker is TKO,
\* its consecutive_failure_count is greater than 0.
C20_TkoShowsFailures ==
  \A t \in Trackers :
    ((\A d \in Holders(t) : pc[d] \in {"idle", "done"}) /\ isTko(t))
      => consecutiveFailureCount[t] > 0

\* ------------------------------------------- a tracker built with threshold 0
\* TkoTracker(0, trackerMap): the constructor takes any size_t
InitZero ==
  /\ tkoThreshold \in {f \in [Trackers -> 0..MaxThreshold] : f[1] = 0}
  /\ sumFailures = [t \in Trackers |-> 0]
  /\ consecutiveFailureCount = [t \in Trackers |-> 0]
  /\ softTkos = 0
  /\ hardTkos = 0
  /\ tracker \in {f \in [Dests -> Trackers] : f[1] = 1}
  /\ pc = [d \in Dests |-> "idle"]
  /\ op = [d \in Dests |-> "none"]
  /\ curSumFailures = [d \in Dests |-> 0]
  /\ value = [d \in Dests |-> 0]
  /\ ret = [d \in Dests |-> FALSE]
  /\ startSum = [d \in Dests |-> 0]
  /\ dSoft = [d \in Dests |-> 0]
  /\ dHard = [d \in Dests |-> 0]
  /\ intf = [d \in Dests |-> 0]
  /\ callsLeft = [d \in Dests |-> -1]
  /\ assertFailed = FALSE
  /\ hardWrapped = FALSE
  /\ RegistryAtRest

SpecZero == InitZero /\ [][Next]_vars

\* C15: on a tracker with tkoThreshold 0 the first recordSoftFailure(d),
\* made while nothing else has touched the trackers, leaves the tracker in
\* soft TKO (isSoftTko true, isHardTko false) with d responsible and
\* soft_tkos equal to 1.
C15_ZeroThresholdSoftTko ==
  \A d \in Dests :
    ( /\ Returned(d) /\ op[d] = "soft"
      /\ Threshold(d) = 0 /\ startSum[d] = 0 /\ intf[d] = 0
      /\ consecutiveFailureCount[tracker[d]] = 1
      /\ \A e \in Dests \ {d} : pc[e] = "idle"
      /\ \A t \in Trackers \ {tracker[d]} : sumFailures[t] = 0 )
    => /\ isSoftTko(tracker[d]) /\ ~isHardTko(tracker[d])
       /\ isResponsible(tracker[d], d)
       /\ softTkos = 1

\* ------------------------------------------- the calls run one at a time
\* The word and the result a call leaves when it runs alone from word w.
\* recordSoftFailure, lines 64-104
SeqSoftFailure(w, d, thr) ==
  IF w > thr THEN <<w, FALSE>>
  ELSE IF w = WordDec(thr) THEN <<Token(d), TRUE>>
  ELSE <<WordInc(w), FALSE>>

\* recordHardFailure, lines 106-130
SeqHardFailure(w, d, thr) ==
  IF w > thr /\ w % 2 = 1 THEN <<w, FALSE>>
  ELSE IF ClearLowBit(w) = Token(d) THEN <<SetLowBit(w), FALSE>>
  ELSE IF w > thr THEN <<w, FALSE>>
  ELSE <<SetLowBit(Token(d)), TRUE>>

\* recordSuccess, lines 136-163
SeqSuccess(w, d, thr) ==
  IF ClearLowBit(w) = Token(d) THEN <<0, TRUE>>
  ELSE IF w # 0 /\ w <= thr THEN <<0, FALSE>>
  ELSE <<w, FALSE>>

\* removeDestination, lines 165-171
SeqRemove(w, d, thr) ==
  IF ClearLowBit(w) = Token(d) THEN <<0, TRUE>> ELSE <<w, FALSE>>

SeqCall(o, w, d, thr) ==
  CASE o = "soft" -> SeqSoftFailure(w, d, thr)
    [] o = "hard" -> SeqHardFailure(w, d, thr)
    [] o = "success" -> SeqSuccess(w, d, thr)
    [] OTHER -> SeqRemove(w, d, thr)

\* positions of a call after its one access that decides word and result:
\* the read or the write of sumFailures_ at which the call takes effect
LinearizedAt(p, cur, thr) ==
  \/ p \in {"hf_dec", "hf_inc", "hf_took", "rs_clear", "rs_reset", "done"}
  \/ p = "sf_body" /\ TkoWord(cur, thr)

\* the result such a call is bound to return
PromisedAt(p, r) ==
  CASE p = "done" -> r
    [] p \in {"hf_took", "rs_clear"} -> TRUE
    [] OTHER -> FALSE

\* d takes a step of a call
Acts(d) ==
  /\ pc'[d] # "idle"
  /\ pc'[d] # pc[d] \/ curSumFailures'[d] # curSumFailures[d]

C14_LinearizationStep ==
  \A d \in Dests :
    Acts(d) =>
      LET t == tracker[d]
          thr == tkoThreshold[t]
          was == LinearizedAt(pc[d], curSumFailures[d], thr)
          is == LinearizedAt(pc'[d], curSumFailures'[d], thr)
      IN IF ~was /\ is
           THEN SeqCall(op'[d], sumFailures[t], d, thr)
                  = <<sumFailures'[t], PromisedAt(pc'[d], ret'[d])>>
           ELSE /\ sumFailures'[t] = sumFailures[t]
                /\ was => /\ is
                          /\ PromisedAt(pc'[d], ret'[d])
                               = PromisedAt(pc[d], ret[d])

\* C14: the tracker is linearizable with respect to sum_failures and the
\* return values: every call of recordSuccess, recordSoftFailure and
\* recordHardFailure (and removeDestination) has one step between its
\* invocation and its return at which sum_failures changes exactly as if the
\* whole call ran alone at that instant and at which the value the call
\* returns is the value that sequential run returns; no other step of the
\* call changes sum_failures.
C14_Linearizable == [][C14_LinearizationStep]_vars

\* a recordSoftFailure that was interfered with by the other destination
\* and still took the tracker into soft TKO, while the other destination is
\* in the middle of a call on the same tracker
C14_Witness ==
  \E d, e \in Dests :
    /\ d # e /\ tracker[d] = tracker[e]
    /\ Returned(d) /\ op[d] = "soft" /\ ret[d] /\ intf[d] >= 1
    /\ pc[e] \in {"ssf_cas", "sf_cas"}

\* --------------------------------- finitely many calls, fair scheduling
\* Two destinations share tracker 1 and issue MaxCalls calls each, starting
\* from a state in which no call is running: the tracker counts k failures
\* below its threshold, or destination 1 has taken it into soft TKO with
\* the threshold's number of soft failures, or into hard TKO with one hard
\* failure.
StartWords(thr) == (0..(thr - 1)) \cup {Token(1), SetLowBit(Token(1))}
StartCount(w, thr) ==
  IF SoftTkoWord(w, thr) THEN thr ELSE IF HardTkoWord(w, thr) THEN 1 ELSE w

InitFair ==
  /\ tkoThreshold \in {f \in [Trackers -> 1..2] : f[2] = 1}
  /\ sumFailures \in {f \in [Trackers -> 0..(Mod - 1)] :
                        f[1] \in StartWords(tkoThreshold[1]) /\ f[2] = 0}
  /\ consecutiveFailureCount =
       [t \in Trackers |-> StartCount(sumFailures[t], tkoThreshold[t])]
  /\ softTkos = Cardinality({t \in Trackers : isSoftTko(t)})
  /\ hardTkos = Cardinality({t \in Trackers : isHardTko(t)})
  /\ tracker = [d \in Dests |-> 1]
  /\ pc = [d \in Dests |-> "idle"]
  /\ op = [d \in Dests |-> "none"]
  /\ curSumFailures = [d \in Dests |-> 0]
  /\ value = [d \in Dests |-> 0]
  /\ ret = [d \in Dests |-> FALSE]
  /\ startSum = [d \in Dests |-> 0]
  /\ dSoft = [d \in Dests |-> 0]
  /\ dHard = [d \in Dests |-> 0]
  /\ intf = [d \in Dests |-> 0]
  /\ callsLeft = [d \in Dests |-> MaxCalls]
  /\ assertFailed = FALSE
  /\ hardWrapped = FALSE
  /\ RegistryAtRest

\* every step the thread of destination d can take
Thread(d) ==
  \/ recordSoftFailure(d)
  \/ setSumFailures(d)
  \/ recordHardFailure(d)
  \/ recordSuccess(d)
  \/ removeDestination(d)
  \/ Return(d)

\* Every thread keeps being scheduled, and a compare_exchange_weak that is
\* attempted again and again on a word equal to its expected value does not
\* fail for ever.
Fairness ==
  \A d \in Dests :
    /\ WF_vars(Thread(d))
    /\ SF_vars(SoftCasOk(d))
    /\ SF_vars(SetSumCasOk(d))

SpecFair == InitFair /\ [][Next]_vars /\ Fairness

\* C17 as stated, its first half: a pass through the loop of
\* recordSoftFailure is repeated only when another thread has changed
\* sum_failures since the loop last read it.
C17_RetryOnlyAfterChange ==
  [][\A d \in Dests :
       (pc[d] = "sf_cas" /\ pc'[d] = "sf_body")
         => sumFailures[tracker[d]] # curSumFailures[d]]_vars

\* a pass through a loop is repeated only after a compare-and-swap that
\* did not write, and is entered with the word freshly read
C17_RetryStep ==
  \A d \in Dests :
    (pc[d] = "sf_cas" /\ pc'[d] = "sf_body")
      => /\ sumFailures' = sumFailures
         /\ curSumFailures'[d] = sumFailures[tracker[d]]

InCall(d) == pc[d] \notin {"idle", "done"}

\* C17: every tracker operation terminates: a pass through a loop is
\* repeated only when its compare_exchange_weak failed, because another
\* thread changed sum_failures or spuriously, and it restarts from the word
\* just read; when finitely many calls are issued, every thread keeps being
\* scheduled and a compare-and-swap retried on an unchanged word eventually
\* succeeds, every call that has begun eventually returns.
C17_EveryCallReturns ==
  /\ [][C17_RetryStep]_vars
  /\ \A d \in Dests : InCall(d) ~> Returned(d)

\* a recordSoftFailure returned after its compare-and-swap had failed
\* because the other destination had changed the word
C17_Witness ==
  \E d \in Dests :
    /\ Returned(d) /\ op[d] = "soft" /\ intf[d] >= 1
    /\ curSumFailures[d] # startSum[d]
    /\ callsLeft[d] < MaxCalls

\* ======================================================= the registry
\* TkoTrackerMap: updateTracker, foreachTkoTracker, getSuspectServers,
\* removeTracker and the destructor of TkoTracker.  A step holds at most one
\* access to memory shared between threads; the body of a critical section
\* is one step when all it touches is guarded by mx_.

\* everything the calls on a tracker work on
trackerCalls == <<tkoThreshold, sumFailures, consecutiveFailureCount, softTkos,
                  hardTkos, tracker, pc, op, curSumFailures, value, ret,
                  startSum, dSoft, dHard, intf, callsLeft, assertFailed,
                  hardWrapped>>
table == <<trackers_, key_, dangling>>
scan == <<todo, lockedTrackers, result>>

MGoto(th, l) == mpc' = [mpc EXCEPT ![th] = l]

\* weak_ptr::lock() returns a non-null shared_ptr
Resolves(o) == o # 0 /\ refs[o] > 0

\* the objects some destination holds after the step
HeldNext == {pdstnTracker'[d] : d \in Dests}

\* a thread starts a registry operation
Spend(th) ==
  /\ mpc[th] = "idle"
  /\ opsLeft[th] > 0
  /\ opsLeft' = [opsLeft EXCEPT ![th] = @ - 1]

\* std::lock_guard<std::mutex> lock(mx_): the thread gets the mutex when it
\* is free; locking a mutex the thread already holds is undefined and is
\* recorded, the thread going nowhere from there
Lock(th, l) ==
  /\ mx_ \in {0, th}
  /\ IF mx_ = th
       THEN relocked' = TRUE /\ mx_' = mx_ /\ MGoto(th, "stuck")
       ELSE relocked' = relocked /\ mx_' = th /\ MGoto(th, l)

\* a shared_ptr to o goes away in thread th, which continues at l; the
\* thread that drops the last strong reference runs the destructor
Drop(th, o, l) ==
  IF o = 0
    THEN refs' = refs /\ dying' = dying /\ MGoto(th, l)
    ELSE /\ refs' = [refs EXCEPT ![o] = @ - 1]
         /\ IF refs[o] = 1
              THEN dying' = [dying EXCEPT ![th] = o] /\ MGoto(th, "dt_lock")
              ELSE dying' = dying /\ MGoto(th, l)

\* ------------------------------------------------------ updateTracker
\* auto key = ...; std::shared_ptr<TkoTracker> tracker;
UpdateStart(d) ==
  /\ Spend(d)
  /\ nextObj + Cardinality({e \in Dests : mpc[e] \in {"ut_lock", "ut_find"}})
       < MaxObjs
  /\ MGoto(d, "ut_lock")
  /\ UNCHANGED <<trackerCalls, table, scan, mx_, refs, nextObj, failures,
                 hostKey, pdstnTracker, utTracker, dying, watch, relocked>>

\* std::lock_guard<std::mutex> lock(mx_)
UpdateAcquire(d) ==
  /\ mpc[d] = "ut_lock"
  /\ Lock(d, "ut_find")
  /\ UNCHANGED <<trackerCalls, table, scan, refs, nextObj, failures, hostKey,
                 pdstnTracker, utTracker, dying, watch, opsLeft>>

\* the body of the critical section: find, lock() or new TkoTracker,
\* emplace or overwrite of the dead entry, tracker->key_ = the node's key
UpdateFind(d) ==
  LET k == hostKey[d]
      o == trackers_[k]
      n == nextObj + 1
  IN
  /\ mpc[d] = "ut_find"
  /\ IF Resolves(o)
       THEN /\ utTracker' = [utTracker EXCEPT ![d] = o]
            /\ refs' = [refs EXCEPT ![o] = @ + 1]
            /\ UNCHANGED <<table, nextObj>>
       ELSE /\ nextObj' = n
            /\ utTracker' = [utTracker EXCEPT ![d] = n]
            /\ refs' = [refs EXCEPT ![n] = 1]
            /\ trackers_' = [trackers_ EXCEPT ![k] = n]
            /\ key_' = [key_ EXCEPT ![n] = k]
            /\ UNCHANGED dangling
  /\ MGoto(d, "ut_unlock")
  /\ UNCHANGED <<trackerCalls, scan, mx_, failures, hostKey, pdstnTracker,
                 dying, watch, opsLeft, relocked>>

\* the lock_guard goes out of scope
UpdateUnlock(d) ==
  /\ mpc[d] = "ut_unlock"
  /\ mx_' = 0
  /\ MGoto(d, "ut_assign")
  /\ UNCHANGED <<trackerCalls, table, scan, refs, nextObj, failures, hostKey,
                 pdstnTracker, utTracker, dying, watch, opsLeft, relocked>>

\* pdstn.tracker = std::move(tracker): the destination's former tracker
\* loses a strong reference
UpdateAssign(d) ==
  /\ mpc[d] = "ut_assign"
  /\ pdstnTracker' = [pdstnTracker EXCEPT ![d] = utTracker[d]]
  /\ utTracker' = [utTracker EXCEPT ![d] = 0]
  /\ Drop(d, pdstnTracker[d], "idle")
  /\ watch' = watch \cap HeldNext
  /\ UNCHANGED <<trackerCalls, table, scan, mx_, nextObj, failures, hostKey,
                 opsLeft, relocked>>

\* ------------------------------------- the destination gives up its tracker
Release(d) ==
  /\ Spend(d)
  /\ pdstnTracker[d] # 0
  /\ pdstnTracker' = [pdstnTracker EXCEPT ![d] = 0]
  /\ Drop(d, pdstnTracker[d], "idle")
  /\ watch' = watch \cap HeldNext
  /\ UNCHANGED <<trackerCalls, table, scan, mx_, nextObj, failures, hostKey,
                 utTracker, relocked>>

\* a failure is recorded on the destination's tracker
\* (++consecutiveFailureCount_); the count is followed up to 1 and is not
\* reset here
RecordFailure(d) ==
  /\ mpc[d] = "idle"
  /\ pdstnTracker[d] # 0
  /\ failures[pdstnTracker[d]] = 0
  /\ failures' = [failures EXCEPT ![pdstnTracker[d]] = 1]
  /\ UNCHANGED <<trackerCalls, table, scan, mx_, refs, nextObj, hostKey,
                 pdstnTracker, utTracker, mpc, dying, watch, opsLeft, relocked>>

\* ------------------------------------- ~TkoTracker and removeTracker
\* objects whose key_ is still going to be read
Unfinished(p) == refs[p] > 0 \/ \E th \in Threads : dying[th] = p

\* the keys find(key) can take key_ of o for: key_ itself, and whatever the
\* freed bytes happen to spell once the node it points into has been erased
KeyRead(o) == IF dangling[o] THEN Keys \cup {0} ELSE {key_[o]}

\* std::lock_guard<std::mutex> lock(mx_) of removeTracker
DtorAcquire(th) ==
  /\ mpc[th] = "dt_lock"
  /\ Lock(th, "dt_erase")
  /\ UNCHANGED <<trackerCalls, table, scan, refs, nextObj, failures, hostKey,
                 pdstnTracker, utTracker, dying, watch, opsLeft>>

\* variant: the entry is erased only when it still names the dying object
DtorEraseOwn(th) ==
  LET o == dying[th]
  IN
  /\ mpc[th] = "dt_erase"
  /\ \E k \in KeyRead(o) :
       IF k # 0 /\ trackers_[k] = o
         THEN /\ trackers_' = [trackers_ EXCEPT ![k] = 0]
              /\ dangling' = [p \in Objs |->
                   IF p # o /\ key_[p] = k /\ Unfinished(p)
                   THEN TRUE ELSE dangling[p]]
         ELSE UNCHANGED <<trackers_, dangling>>
  /\ MGoto(th, "dt_unlock")
  /\ UNCHANGED <<trackerCalls, scan, key_, mx_, refs, nextObj, failures,
                 hostKey, pdstnTracker, utTracker, dying, watch, opsLeft,
                 relocked>>

\* auto it = trackers_.find(key); if (it != trackers_.end()) erase(it):
\* the node goes, and with it the storage key_ of every other object
\* registered under it points into
DtorErase(th) ==
  LET o == dying[th]
  IN
  /\ mpc[th] = "dt_erase"
  /\ \E k \in KeyRead(o) :
       IF k # 0 /\ trackers_[k] # 0
         THEN /\ trackers_' = [trackers_ EXCEPT ![k] = 0]
              /\ dangling' = [p \in Objs |->
                   IF p # o /\ key_[p] = k /\ Unfinished(p)
                   THEN TRUE ELSE dangling[p]]
         ELSE UNCHANGED <<trackers_, dangling>>
  /\ MGoto(th, "dt_unlock")
  /\ UNCHANGED <<trackerCalls, scan, key_, mx_, refs, nextObj, failures,
                 hostKey, pdstnTracker, utTracker, dying, watch, opsLeft,
                 relocked>>

\* the lock_guard goes out of scope and the destructor ends; the thread
\* goes on with what it was doing
DtorUnlock(th) ==
  /\ mpc[th] = "dt_unlock"
  /\ mx_' = 0
  /\ key_' = [key_ EXCEPT ![dying[th]] = 0]
  /\ dangling' = [dangling EXCEPT ![dying[th]] = FALSE]
  /\ dying' = [dying EXCEPT ![th] = 0]
  /\ MGoto(th, IF th = Observer THEN "fe_drop" ELSE "idle")
  /\ UNCHANGED <<trackerCalls, scan, trackers_, refs, nextObj, failures,
                 hostKey, pdstnTracker, utTracker, watch, opsLeft, relocked>>

\* --------------------------- getSuspectServers and foreachTkoTracker
\* the objects a destination holds that have failures
Suspects == {o \in Objs : failures[o] > 0 /\ \E d \in Dests : pdstnTracker[d] = o}

\* result is empty; foreachTkoTracker is called
ScanStart ==
  /\ Spend(Observer)
  /\ result' = {}
  /\ watch' = Suspects
  /\ MGoto(Observer, "fe_reserve")
  /\ UNCHANGED <<trackerCalls, table, todo, lockedTrackers, mx_, refs, nextObj,
                 failures, hostKey, pdstnTracker, utTracker, dying, relocked>>

\* lockedTrackers.reserve(trackers_.size()): trackers_ is read before mx_
\* is taken; the number read only sizes the vector
ScanReserve ==
  /\ mpc[Observer] = "fe_reserve"
  /\ MGoto(Observer, "fe_lock")
  /\ UNCHANGED <<trackerCalls, table, scan, mx_, refs, nextObj, failures,
                 hostKey, pdstnTracker, utTracker, dying, watch, opsLeft,
                 relocked>>

\* std::lock_guard<std::mutex> lock(mx_); the iteration begins
ScanAcquire ==
  /\ mpc[Observer] = "fe_lock"
  /\ Lock(Observer, "fe_visit")
  /\ todo' = {k \in Keys : trackers_[k] # 0}
  /\ UNCHANGED <<trackerCalls, table, lockedTrackers, result, refs, nextObj,
                 failures, hostKey, pdstnTracker, utTracker, dying, watch,
                 opsLeft>>

\* the entry whose tracker has been locked and not yet handed to func
Current == {k \in todo : trackers_[k] \in lockedTrackers}

\* if (auto tracker = it.second.lock()), for the next entry in the order
\* the unordered_map happens to have
ScanVisit ==
  /\ mpc[Observer] = "fe_visit"
  /\ \E k \in todo :
       IF Resolves(trackers_[k])
         THEN /\ refs' = [refs EXCEPT ![trackers_[k]] = @ + 1]
              /\ lockedTrackers' = lockedTrackers \cup {trackers_[k]}
              /\ todo' = todo
              /\ MGoto(Observer, "fe_func")
         ELSE /\ todo' = todo \ {k}
              /\ UNCHANGED <<refs, lockedTrackers, mpc>>
  /\ UNCHANGED <<trackerCalls, table, result, mx_, nextObj, failures, hostKey,
                 pdstnTracker, utTracker, dying, watch, opsLeft, relocked>>

\* variant: the shared_ptr is not kept in lockedTrackers and goes away at
\* the end of the loop body, under the lock
ScanFuncNoKeep ==
  /\ mpc[Observer] = "fe_func"
  /\ \E k \in Current :
       /\ result' = IF failures[trackers_[k]] > 0 THEN result \cup {k} ELSE result
       /\ todo' = todo \ {k}
       /\ lockedTrackers' = lockedTrackers \ {trackers_[k]}
       /\ Drop(Observer, trackers_[k], "fe_visit")
  /\ UNCHANGED <<trackerCalls, table, mx_, nextObj, failures, hostKey,
                 pdstnTracker, utTracker, watch, opsLeft, relocked>>
\* func(it.first, *tracker) as getSuspectServers passes it:
\* if (tracker.consecutiveFailureCount() > 0) result.emplace(key, ...);
\* then lockedTrackers.emplace_back(std::move(tracker))
ScanFunc ==
  /\ mpc[Observer] = "fe_func"
  /\ \E k \in Current :
       /\ result' = IF failures[trackers_[k]] > 0 THEN result \cup {k} ELSE result
       /\ todo' = todo \ {k}
  /\ MGoto(Observer, "fe_visit")
  /\ UNCHANGED <<trackerCalls, table, lockedTrackers, mx_, refs, nextObj,
                 failures, hostKey, pdstnTracker, utTracker, dying, watch,
                 opsLeft, relocked>>

\* the loop is over and the lock_guard goes out of scope
ScanUnlock ==
  /\ mpc[Observer] = "fe_visit"
  /\ todo = {}
  /\ mx_' = 0
  /\ MGoto(Observer, "fe_drop")
  /\ UNCHANGED <<trackerCalls, table, scan, refs, nextObj, failures, hostKey,
                 pdstnTracker, utTracker, dying, watch, opsLeft, relocked>>

\* lockedTrackers is destroyed, one shared_ptr after the other
ScanDrop ==
  /\ mpc[Observer] = "fe_drop"
  /\ IF lockedTrackers = {}
       THEN /\ MGoto(Observer, "fe_return")
            /\ UNCHANGED <<lockedTrackers, refs, dying>>
       ELSE \E o \in lockedTrackers :
              /\ lockedTrackers' = lockedTrackers \ {o}
              /\ Drop(Observer, o, "fe_drop")
  /\ UNCHANGED <<trackerCalls, table, todo, result, mx_, nextObj, failures,
                 hostKey, pdstnTracker, utTracker, watch, opsLeft, relocked>>

\* return result: the caller has the suspect servers
ScanReturn ==
  /\ mpc[Observer] = "fe_return"
  /\ result' = {}
  /\ watch' = {}
  /\ MGoto(Observer, "idle")
  /\ UNCHANGED <<trackerCalls, table, todo, lockedTrackers, mx_, refs, nextObj,
                 failures, hostKey, pdstnTracker, utTracker, dying, opsLeft,
                 relocked>>

\* size_t getSuspectServersCount(): the same walk, counting the entries
\* getSuspectServers would insert
getSuspectServersCount == Cardinality(result)

updateTracker(d) ==
  \/ UpdateStart(d)
  \/ UpdateAcquire(d)
  \/ UpdateFind(d)
  \/ UpdateUnlock(d)
  \/ UpdateAssign(d)

removeTracker(th) ==
  \/ DtorAcquire(th)
  \/ DtorErase(th)
  \/ DtorUnlock(th)

foreachTkoTracker ==
  \/ ScanReserve
  \/ ScanAcquire
  \/ ScanVisit
  \/ ScanFunc
  \/ ScanUnlock
  \/ ScanDrop

getSuspectServers ==
  \/ ScanStart
  \/ foreachTkoTracker
  \/ ScanReturn

\* every step a thread can take in the registry
RegistryThread(th) ==
  \/ th \in Dests /\ (updateTracker(th) \/ Release(th) \/ RecordFailure(th))
  \/ th = Observer /\ getSuspectServers
  \/ removeTracker(th)

InitRegistry ==
  /\ tkoThreshold = [t \in Trackers |-> 1]
  /\ sumFailures = [t \in Trackers |-> 0]
  /\ consecutiveFailureCount = [t \in Trackers |-> 0]
  /\ softTkos = 0
  /\ hardTkos = 0
  /\ tracker = [d \in Dests |-> 1]
  /\ pc = [d \in Dests |-> "idle"]
  /\ op = [d \in Dests |-> "none"]
  /\ curSumFailures = [d \in Dests |-> 0]
  /\ value = [d \in Dests |-> 0]
  /\ ret = [d \in Dests |-> FALSE]
  /\ startSum = [d \in Dests |-> 0]
  /\ dSoft = [d \in Dests |-> 0]
  /\ dHard = [d \in Dests |-> 0]
  /\ intf = [d \in Dests |-> 0]
  /\ callsLeft = [d \in Dests |-> -1]
  /\ assertFailed = FALSE
  /\ hardWrapped = FALSE
  /\ EmptyRegistry
  /\ hostKey \in {f \in [Dests -> Keys] : f[1] = 1}
  /\ opsLeft = [th \in Threads |-> MaxOps]

NextRegistry ==
  \/ \E d \in Dests : updateTracker(d) \/ Release(d) \/ RecordFailure(d)
  \/ \E th \in Threads : removeTracker(th)
  \/ getSuspectServers

SpecRegistry == InitRegistry /\ [][NextRegistry]_vars

\* ------------------------- finitely many operations, fair scheduling
\* destination 1 holds the only tracker of the registry, registered under
\* the key the two destinations share
RegisteredTracker ==
  /\ trackers_ = [k \in Keys |-> IF k = 1 THEN 1 ELSE 0]
  /\ refs = [o \in Objs |-> IF o = 1 THEN 1 ELSE 0]
  /\ nextObj = 1
  /\ key_ = [o \in Objs |-> IF o = 1 THEN 1 ELSE 0]
  /\ dangling = [o \in Objs |-> FALSE]
  /\ pdstnTracker = [d \in Dests |-> IF d = 1 THEN 1 ELSE 0]

\* destination 2 holds the second tracker made for the key, whose entry the
\* destructor of the first one has erased
OrphanedTracker ==
  /\ trackers_ = [k \in Keys |-> 0]
  /\ refs = [o \in Objs |-> IF o = 2 THEN 1 ELSE 0]
  /\ nextObj = 2
  /\ key_ = [o \in Objs |-> IF o = 2 THEN 1 ELSE 0]
  /\ dangling = [o \in Objs |-> o = 2]
  /\ pdstnTracker = [d \in Dests |-> IF d = 2 THEN 2 ELSE 0]

\* Every thread starts MaxCalls operations from one of these two states.
InitLocks ==
  /\ tkoThreshold = [t \in Trackers |-> 1]
  /\ sumFailures = [t \in Trackers |-> 0]
  /\ consecutiveFailureCount = [t \in Trackers |-> 0]
  /\ softTkos = 0
  /\ hardTkos = 0
  /\ tracker = [d \in Dests |-> 1]
  /\ pc = [d \in Dests |-> "idle"]
  /\ op = [d \in Dests |-> "none"]
  /\ curSumFailures = [d \in Dests |-> 0]
  /\ value = [d \in Dests |-> 0]
  /\ ret = [d \in Dests |-> FALSE]
  /\ startSum = [d \in Dests |-> 0]
  /\ dSoft = [d \in Dests |-> 0]
  /\ dHard = [d \in Dests |-> 0]
  /\ intf = [d \in Dests |-> 0]
  /\ callsLeft = [d \in Dests |-> -1]
  /\ assertFailed = FALSE
  /\ hardWrapped = FALSE
  /\ RegisteredTracker \/ OrphanedTracker
  /\ mx_ = 0
  /\ failures = [o \in Objs |-> 0]
  /\ hostKey = [d \in Dests |-> 1]
  /\ utTracker = [d \in Dests |-> 0]
  /\ mpc = [th \in Threads |-> "idle"]
  /\ dying = [th \in Threads |-> 0]
  /\ todo = {}
  /\ lockedTrackers = {}
  /\ result = {}
  /\ watch = {}
  /\ opsLeft = [th \in Threads |-> MaxCalls]
  /\ relocked = FALSE

\* every thread keeps being scheduled; a thread that asks for a mutex
\* nobody holds any more gets it
SpecLocks ==
  InitLocks /\ [][NextRegistry]_vars
    /\ \A th \in Threads : WF_vars(RegistryThread(th))

Waiting(th) == mpc[th] \in {"ut_lock", "dt_lock", "fe_lock"}

\* the thread that drops the last strong reference to an object does not
\* hold mx_ at that moment
C16_DropStep ==
  \A th \in Threads :
    (dying[th] = 0 /\ dying'[th] # 0) => (mx_ # th /\ mx_' # th)

\* C16: the registry never self-deadlocks: no thread drops the last strong
\* reference to a tracker while it holds mx_, no thread asks for mx_ while it
\* holds it, and every thread waiting for mx_ eventually acquires it.
C16_NoSelfDeadlock ==
  /\ [][C16_DropStep]_vars
  /\ [](~relocked /\ \A th \in Threads : Waiting(th) => mx_ # th)
  /\ \A th \in Threads : Waiting(th) ~> (mx_ = th)

\* the thread walking the table has dropped the last strong reference to a
\* tracker and waits, in the destructor, for the mutex a destination holds
C16_Witness ==
  /\ mpc[Observer] = "dt_lock" /\ dying[Observer] # 0
  /\ mx_ \in Dests

\* the two start states of SpecLocks are states of the registry: the second
\* is what the interleaving of a release with updateTracker leaves behind
ReachesOrphanedTracker ==
  /\ \A th \in Threads : mpc[th] = "idle"
  /\ mx_ = 0
  /\ trackers_ = [k \in Keys |-> 0]
  /\ pdstnTracker = [d \in Dests |-> IF d = 2 THEN 2 ELSE 0]
  /\ refs[2] = 1 /\ refs[1] = 0 /\ key_[2] = 1 /\ dangling[2]

\* C12: two destinations that hold a tracker and have the same host key
\* hold the same tracker, in every state of every interleaving of
\* updateTracker with releases and destructors.
C12_OneTrackerPerKey ==
  \A d, e \in Dests :
    (pdstnTracker[d] # 0 /\ pdstnTracker[e] # 0 /\ hostKey[d] = hostKey[e])
      => pdstnTracker[d] = pdstnTracker[e]

\* C13: when getSuspectServers returns, its result has an entry under the
\* key of every tracker that some destination held, with a
\* consecutive_failure_count above 0, from the beginning of the call to its
\* end; getSuspectServersCount counts those entries.
C13_SuspectsReported ==
  mpc[Observer] = "fe_return"
    => /\ \A o \in watch : key_[o] \in result
       /\ getSuspectServersCount >= Cardinality({key_[o] : o \in watch})

\* the positions from which the next step of a thread reads or writes
\* trackers_: find/emplace, find/erase, size(), the iteration
TableAccess == {"ut_find", "dt_erase", "fe_reserve", "fe_visit", "fe_func"}

\* C19: a thread about to read or write trackers_, in updateTracker,
\* foreachTkoTracker (getSuspectServers, getSuspectServersCount) or
\* removeTracker, holds mx_.
C19_TableUnderMutex ==
  \A th \in Threads : mpc[th] \in TableAccess => mx_ = th

====
